---------------------------- MODULE Spec2Model ----------------------------
(***************************************************************************)
(* A model of src/src/model.py: MultiHeadCrossModalAttention, FeedForward, *)
(* ResidualBlock and ModalityAwareFusion.                                  *)
(*                                                                         *)
(* A tensor is modelled by its shape and by a symbolic expression that     *)
(* records which operations produced it from which inputs.  Inside the     *)
(* attention, the projected Q, K and V additionally carry their elements   *)
(* in logical row-major order, each element being the index <<b, t, c>>    *)
(* of the entry of the projection it holds, so that view / reshape /       *)
(* transpose act on them as torch does.  A call either returns a tensor or *)
(* raises; err names the Python exception ("RuntimeError" is what torch    *)
(* raises on a size mismatch).                                             *)
(***************************************************************************)
EXTENDS Integers, Sequences, FiniteSets, TLC

VARIABLES
    pc,   \* "start", "constructed", "ctor_raised", "returned" or "raised"
    cfg,  \* the arguments of the constructor call
    obj,  \* the module the constructor produced, NoModule when it raised
    inp,  \* the arguments of the forward call
    res   \* the outcome of the last call

vars == <<pc, cfg, obj, inp, res>>

-----------------------------------------------------------------------------
(* Bounds of the model *)

MaxBatch == 2
MaxSeq == 4
MaxDModel == 10
MaxHeads == 3

Batches == 1..MaxBatch
SeqLens == 1..MaxSeq
Widths == 1..MaxDModel
HeadCounts == 0..MaxHeads

-----------------------------------------------------------------------------
(* Symbolic expressions and tensors *)

Leaf(name) == [op |-> name, args |-> <<>>]

Node(op, args) == [op |-> op, args |-> args]

NoExpr == Leaf("None")

Tensor(shape, expr, device) == [shape |-> shape, expr |-> expr, device |-> device]

\* Python's None passed where a tensor is expected
NoneTensor == Tensor(<<>>, NoExpr, "cpu")

\* t.to(device): the same values, placed on device
To(t, device) == Tensor(t.shape, t.expr, device)

IsNone(t) == t.expr.op = "None"

Ok(t) == [err |-> "none", out |-> t]

Raise(e) == [err |-> e, out |-> NoneTensor]

RECURSIVE Prod(_)
Prod(s) == IF s = <<>> THEN 1 ELSE s[1] * Prod(Tail(s))

Numel(shape) == Prod(shape)

Last(s) == s[Len(s)]

Front(s) == SubSeq(s, 1, Len(s) - 1)

-----------------------------------------------------------------------------
(* torch primitives, on shapes and expressions *)

\* nn.Linear(in_features, out_features); parameters are created on the cpu and
\* the source never moves them
Linear(name, in_features, out_features) ==
    [name |-> name, in_features |-> in_features, out_features |-> out_features,
     device |-> "cpu"]

\* F.linear: the input must be on the device of the weights ("DeviceError" is
\* torch's RuntimeError for tensors on different devices) and its trailing
\* dimension must equal in_features
Linear_forward(lin, t) ==
    IF IsNone(t) THEN Raise("TypeError")
    ELSE IF t.device # lin.device THEN Raise("DeviceError")
    ELSE IF Last(t.shape) # lin.in_features THEN Raise("RuntimeError")
    ELSE Ok(Tensor(Front(t.shape) \o <<lin.out_features>>,
                   Node(lin.name, <<t.expr>>), t.device))

\* nn.LayerNorm(normalized_shape): the trailing dimension must equal it
LayerNorm_forward(normalized_shape, t) ==
    IF t.device # "cpu" THEN Raise("DeviceError")
    ELSE IF Last(t.shape) # normalized_shape THEN Raise("RuntimeError")
    ELSE Ok(Tensor(t.shape, Node("LayerNorm", <<t.expr>>), t.device))

Broadcastable(s, u) ==
    /\ Len(s) = Len(u)
    /\ \A i \in 1..Len(s) : s[i] = u[i] \/ s[i] = 1 \/ u[i] = 1

BroadcastShape(s, u) == [i \in 1..Len(s) |-> IF s[i] = 1 THEN u[i] ELSE s[i]]

\* a + b with torch's broadcasting
Add(a, b) ==
    IF a.device # b.device THEN Raise("DeviceError")
    ELSE IF ~Broadcastable(a.shape, b.shape) THEN Raise("RuntimeError")
    ELSE Ok(Tensor(BroadcastShape(a.shape, b.shape), Node("add", <<a.expr, b.expr>>),
                   a.device))

\* torch.cat([a, b], dim=-1)
Cat(a, b) ==
    IF a.device # b.device THEN Raise("DeviceError")
    ELSE IF Len(a.shape) # Len(b.shape) \/ Front(a.shape) # Front(b.shape)
    THEN Raise("RuntimeError")
    ELSE Ok(Tensor(Front(a.shape) \o <<Last(a.shape) + Last(b.shape)>>,
                   Node("cat", <<a.expr, b.expr>>), a.device))

-----------------------------------------------------------------------------
(* Element layouts: shape and elements in logical row-major order *)

Layout(shape, data) == [shape |-> shape, data |-> data]

NoLayout == Layout(<<>>, <<>>)

\* the (B, T, C) output of a projection; element (b, t, c) is tagged <<b, t, c>>
Projected(B, T, C) ==
    Layout(<<B, T, C>>,
           [k \in 1..(B * T * C) |->
               <<(k - 1) \div (T * C), ((k - 1) \div C) % T, (k - 1) % C>>])

\* t.view(shape) / t.reshape(shape) of a tensor of shape from: possible when
\* the sizes agree, and then the same elements in the same logical order
CanView(from, shape) == Numel(shape) = Numel(from)

View(t, shape) == Layout(shape, t.data)

\* t.transpose(1, 2) of a 4-d tensor
Transpose12(t) ==
    LET s1 == t.shape[1]
        s2 == t.shape[2]
        s3 == t.shape[3]
        s4 == t.shape[4]
    IN Layout(<<s1, s3, s2, s4>>,
              [k \in 1..Len(t.data) |->
                  LET o == k - 1
                      i4 == o % s4
                      i2 == (o \div s4) % s2
                      i3 == (o \div (s4 * s2)) % s3
                      i1 == o \div (s4 * s2 * s3)
                  IN t.data[((i1 * s2 + i2) * s3 + i3) * s4 + i4 + 1]])

\* the element at (b, h, t, j) of a 4-d layout, indices from 0
At4(t, b, h, p, j) ==
    t.data[((b * t.shape[2] + h) * t.shape[3] + p) * t.shape[4] + j + 1]

-----------------------------------------------------------------------------
(* MultiHeadCrossModalAttention *)

NoModule == [cls |-> "None"]

Built(m) == [err |-> "none", obj |-> m]

CtorRaise(e) == [err |-> e, obj |-> NoModule]

\* __init__ without the divisibility assertion
MultiHeadCrossModalAttention_init_noassert(d_model, num_heads) ==
    IF num_heads = 0 THEN CtorRaise("ZeroDivisionError")
    ELSE Built([cls |-> "MultiHeadCrossModalAttention",
                num_heads |-> num_heads,
                head_dim |-> d_model \div num_heads,
                q_proj |-> Linear("q_proj", d_model, d_model),
                kv_proj |-> Linear("kv_proj", d_model, d_model * 2),
                out_proj |-> Linear("out_proj", d_model, d_model)])

MultiHeadCrossModalAttention_init(d_model, num_heads) ==
    IF num_heads = 0 THEN CtorRaise("ZeroDivisionError")
    ELSE IF d_model % num_heads # 0 THEN CtorRaise("AssertionError")
    ELSE Built([cls |-> "MultiHeadCrossModalAttention",
                num_heads |-> num_heads,
                head_dim |-> d_model \div num_heads,
                q_proj |-> Linear("q_proj", d_model, d_model),
                kv_proj |-> Linear("kv_proj", d_model, d_model * 2),
                out_proj |-> Linear("out_proj", d_model, d_model)])

\* what a forward call of the attention leaves behind: the outcome, the
\* head-split Q, K and V, and the inputs the queries and the keys/values
\* were projected from
AttnResult(err, out, Q, K, V, queries_from, keys_from) ==
    [err |-> err, out |-> out, Q |-> Q, K |-> K, V |-> V,
     queries_from |-> queries_from, keys_from |-> keys_from]

AttnRaise(e, Q, x) == AttnResult(e, NoneTensor, NoLayout, NoLayout, NoLayout, Q.expr, x.expr)

NoAttn == AttnResult("none", NoneTensor, NoLayout, NoLayout, NoLayout, NoExpr, NoExpr)

\* t.view(B, T, num_heads, head_dim).transpose(1, 2)
SplitHeads(t, B, T, num_heads, head_dim) ==
    Transpose12(View(t, <<B, T, num_heads, head_dim>>))

NoHeads == [err |-> "RuntimeError", Q |-> NoLayout, K |-> NoLayout, V |-> NoLayout]

\* lines 53-57: K and V, the halves of the (B, T, 2 * width) projection of x,
\* are split into heads by view and transpose and then once more by reshape
\* and transpose; Q, the (Bq, Q_T, width) projection of the query, is split
\* once, with the batch size B of x
HeadSplit(B, T, Bq, Q_T, width, num_heads, head_dim) ==
    IF ~CanView(<<B, T, width>>, <<B, T, num_heads, head_dim>>) THEN NoHeads
    ELSE IF ~CanView(<<Bq, Q_T, width>>, <<B, Q_T, num_heads, head_dim>>) THEN NoHeads
    ELSE [err |-> "none",
          Q |-> SplitHeads(Projected(Bq, Q_T, width), B, Q_T, num_heads, head_dim),
          K |-> SplitHeads(SplitHeads(Projected(B, T, width), B, T, num_heads, head_dim),
                           B, T, num_heads, head_dim),
          V |-> SplitHeads(SplitHeads(Projected(B, T, width), B, T, num_heads, head_dim),
                           B, T, num_heads, head_dim)]

\* a @ b on 4-d shapes: the leading dimensions broadcast, the inner ones agree
CanMatMul(a, b) ==
    /\ a[4] = b[3]
    /\ Broadcastable(SubSeq(a, 1, 2), SubSeq(b, 1, 2))

MatMulShape(a, b) == BroadcastShape(SubSeq(a, 1, 2), SubSeq(b, 1, 2)) \o <<a[3], b[4]>>

TransposeLast(s) == <<s[1], s[2], s[4], s[3]>>

\* Q @ K with the transpose(-2, -1) of K left out
AttnScores_notranspose(Qs, Ks) ==
    IF ~CanMatMul(Qs, Ks) THEN <<>> ELSE MatMulShape(Qs, Ks)

\* (Q @ K.transpose(-2, -1)) / self.scale: its shape, <<>> when the product fails
AttnScores(Qs, Ks) ==
    IF ~CanMatMul(Qs, TransposeLast(Ks)) THEN <<>>
    ELSE MatMulShape(Qs, TransposeLast(Ks))

\* (attn_probs @ V).transpose(1, 2).contiguous().view(B, Q_T, C): its shape,
\* <<>> when a step fails
AttnOutputShape(scores, Vs, B, Q_T, C) ==
    IF scores = <<>> THEN <<>>
    ELSE IF ~CanMatMul(scores, Vs) THEN <<>>
    ELSE IF Numel(MatMulShape(scores, Vs)) # B * Q_T * C THEN <<>>
    ELSE <<B, Q_T, C>>

\* the value of attn_output as an expression of the inputs
AttnExpr(x, Q) ==
    Node("merge_heads",
      <<Node("matmul",
          <<Node("softmax",
              <<Node("scale",
                  <<Node("matmul",
                      <<Node("split_heads", <<Node("q_proj", <<Q.expr>>)>>),
                        Node("transpose",
                          <<Node("split_heads", <<Node("split_heads",
                              <<Node("chunk_0", <<Node("kv_proj", <<x.expr>>)>>)>>)>>)>>)>>)>>)>>),
            Node("split_heads", <<Node("split_heads",
                <<Node("chunk_1", <<Node("kv_proj", <<x.expr>>)>>)>>)>>)>>)>>)

\* line 65, given the heads h and the shape of attn_output
AttnProjectOut(self, x, Q, h, shape, y) ==
    IF shape = <<>> THEN AttnResult("RuntimeError", NoneTensor, h.Q, h.K, h.V, Q.expr, x.expr)
    ELSE AttnResult(y.err, y.out, h.Q, h.K, h.V, Q.expr, x.expr)

\* lines 59-65, given the heads h
AttnAttend(self, x, Q, h, shape) ==
    AttnProjectOut(self, x, Q, h, shape,
                   Linear_forward(self.out_proj, Tensor(shape, AttnExpr(x, Q), x.device)))

\* lines 53-65, given the projections Qp (line 49) and KVp (line 51); chunk(2)
\* halves the feature axis of KVp
AttnSplit(self, x, Q, Q_T, h) ==
    IF h.err # "none" THEN AttnRaise(h.err, Q, x)
    ELSE AttnAttend(self, x, Q, h,
                    AttnOutputShape(AttnScores(h.Q.shape, h.K.shape), h.V.shape,
                                    x.shape[1], Q_T, x.shape[3]))

AttnProjected(self, x, Q, Qp, KVp) ==
    IF Qp.err # "none" THEN AttnRaise(Qp.err, Q, x)
    ELSE IF KVp.err # "none" THEN AttnRaise(KVp.err, Q, x)
    ELSE AttnSplit(self, x, Q, Qp.out.shape[2],
                   HeadSplit(x.shape[1], x.shape[2], Qp.out.shape[1], Qp.out.shape[2],
                             (Last(KVp.out.shape) + 1) \div 2,
                             self.num_heads, self.head_dim))

MultiHeadCrossModalAttention_forward(self, x, Q) ==
    IF IsNone(x) THEN AttnRaise("AttributeError", Q, x)
    ELSE AttnProjected(self, x, Q, Linear_forward(self.q_proj, Q),
                       Linear_forward(self.kv_proj, x))

-----------------------------------------------------------------------------
(* FeedForward *)

FeedForward_init(d_model, num_modalities, d_ff) ==
    Built([cls |-> "FeedForward",
           fc1 |-> Linear("fc1", d_model, d_ff),
           fc2 |-> Linear("fc2", d_ff, d_model)])

\* F.gelu, elementwise
Gelu(h) ==
    IF h.err # "none" THEN h
    ELSE Ok(Tensor(h.out.shape, Node("gelu", <<h.out.expr>>), h.out.device))

AndThenLinear(lin, g) == IF g.err # "none" THEN g ELSE Linear_forward(lin, g.out)

FeedForward_forward(self, x) ==
    AndThenLinear(self.fc2, Gelu(Linear_forward(self.fc1, x)))

-----------------------------------------------------------------------------
(* ResidualBlock *)

\* module_type: ModuleType.CrossAttention or ModuleType.FFN
ModuleTypes == {"CrossAttention", "FFN"}

ResidualBlock_built(d_model, prenorm, inner) ==
    IF inner.err # "none" THEN CtorRaise(inner.err)
    ELSE Built([cls |-> "ResidualBlock",
                prenorm |-> prenorm,
                norm |-> d_model,
                module |-> inner.obj])

ResidualBlock_init(d_model, module_type, prenorm, kwargs) ==
    IF module_type = "FFN"
    THEN IF ~({"num_modalities", "d_ff"} \subseteq DOMAIN kwargs) THEN CtorRaise("KeyError")
         ELSE ResidualBlock_built(d_model, prenorm,
                 FeedForward_init(d_model, kwargs.num_modalities, kwargs.d_ff))
    ELSE IF "num_heads" \notin DOMAIN kwargs THEN CtorRaise("KeyError")
         ELSE ResidualBlock_built(d_model, prenorm,
                 MultiHeadCrossModalAttention_init(d_model, kwargs.num_heads))

\* the outcome of a block's forward call and of the attention call inside it
\* (NoAttn in a feed-forward block)
BlockResult(err, out, attn) == [err |-> err, out |-> out, attn |-> attn]

NoBlockResult == BlockResult("none", NoneTensor, NoAttn)

BlockRaise(e) == BlockResult(e, NoneTensor, NoAttn)

AndThenAdd(x, n) == IF n.err # "none" THEN n ELSE Add(x, n.out)

AndThenNorm(normalized_shape, s) ==
    IF s.err # "none" THEN s ELSE LayerNorm_forward(normalized_shape, s.out)

\* lines 135-138 with the two branches exchanged
ResidualBlock_norm_swapped(self, x, out) ==
    IF self.prenorm
    THEN AndThenNorm(self.norm, Add(x, out))
    ELSE AndThenAdd(x, LayerNorm_forward(self.norm, out))

\* lines 135-138 with the residual addition left out
ResidualBlock_norm_noresidual(self, x, out) ==
    LayerNorm_forward(self.norm, out)

\* lines 135-138
ResidualBlock_norm(self, x, out) ==
    IF self.prenorm
    THEN AndThenAdd(x, LayerNorm_forward(self.norm, out))
    ELSE AndThenNorm(self.norm, Add(x, out))

BlockReturn(r, attn) == BlockResult(r.err, r.out, attn)

\* lines 135-140, given the outcome of the inner module
ResidualBlock_after(self, x, inner, attn) ==
    IF inner.err # "none" THEN BlockResult(inner.err, NoneTensor, attn)
    ELSE BlockReturn(ResidualBlock_norm(self, x, inner.out), attn)

ResidualBlock_afterAttn(self, x, a) == ResidualBlock_after(self, x, a, a)

ResidualBlock_forward(self, x, context) ==
    IF self.module.cls = "MultiHeadCrossModalAttention"
    THEN ResidualBlock_afterAttn(self, x,
            MultiHeadCrossModalAttention_forward(self.module, x, context))
    ELSE ResidualBlock_after(self, x, FeedForward_forward(self.module, x), NoAttn)

\* self.block(*args, **kwargs): Python binds the arguments to
\* forward(self, x, context=None) and raises TypeError when they do not fit
ForwardParams == <<"x", "context">>

ResidualBlock_call(self, args, kwargs) ==
    IF Len(args) > Len(ForwardParams) THEN BlockRaise("TypeError")
    ELSE IF ~(DOMAIN kwargs \subseteq {ForwardParams[i] : i \in 1..Len(ForwardParams)})
    THEN BlockRaise("TypeError")
    ELSE IF DOMAIN kwargs \cap {ForwardParams[i] : i \in 1..Len(args)} # {}
    THEN BlockRaise("TypeError")
    ELSE IF Len(args) = 0 /\ "x" \notin DOMAIN kwargs THEN BlockRaise("TypeError")
    ELSE ResidualBlock_forward(self,
            IF Len(args) >= 1 THEN args[1] ELSE kwargs.x,
            IF Len(args) >= 2 THEN args[2]
            ELSE IF "context" \in DOMAIN kwargs THEN kwargs.context
            ELSE NoneTensor)

NoKwargs == [n \in {} |-> NoneTensor]

-----------------------------------------------------------------------------
(* ModalityAwareFusion *)

\* Mode.BI, Mode.X2Y, Mode.Y2X
Modes == {"BI", "X2Y", "Y2X"}

ModalityAwareFusion_built(d_model, devices, mode, attn, ffn) ==
    IF attn.err # "none" THEN CtorRaise(attn.err)
    ELSE IF ffn.err # "none" THEN CtorRaise(ffn.err)
    ELSE Built([cls |-> "ModalityAwareFusion",
                mode |-> mode,
                devices |-> devices,
                d_ff |-> 4 * d_model,
                cross_x2y |-> IF mode = "BI" THEN attn.obj ELSE NoModule,
                cross_y2x |-> IF mode = "BI" THEN attn.obj ELSE NoModule,
                cross |-> IF mode = "BI" THEN NoModule ELSE attn.obj,
                ffn |-> ffn.obj])

ModalityAwareFusion_init(d_model, num_modalities, num_heads, devices, mode) ==
    ModalityAwareFusion_built(d_model, devices, mode,
        ResidualBlock_init(d_model, "CrossAttention", FALSE, [num_heads |-> num_heads]),
        ResidualBlock_init(d_model, "FFN", FALSE,
                           [num_modalities |-> num_modalities, d_ff |-> 4 * d_model]))

\* the outcome of fuse(x, y), the outcomes of the blocks it ran (NoBlockResult
\* for a block that was not run) and the concatenation
FuseResult(err, out, x2y, y2x, cross, cat, ffn) ==
    [err |-> err, out |-> out, x2y |-> x2y, y2x |-> y2x, cross |-> cross,
     cat |-> cat, ffn |-> ffn]

\* line 196 in BIDIRECTIONAL mode
FuseBI_ffn(x2y, y2x, cat, ffn) ==
    FuseResult(ffn.err, ffn.out, x2y, y2x, NoBlockResult, cat.out, ffn)

\* lines 190-196
FuseBI_cat(self, x2y, y2x, cat) ==
    IF cat.err # "none"
    THEN FuseResult(cat.err, NoneTensor, x2y, y2x, NoBlockResult, NoneTensor, NoBlockResult)
    ELSE FuseBI_ffn(x2y, y2x, cat, ResidualBlock_call(self.ffn, <<cat.out>>, NoKwargs))

\* lines 189-196
FuseBI_y2x(self, x2y, y2x) ==
    IF y2x.err # "none"
    THEN FuseResult(y2x.err, NoneTensor, x2y, y2x, NoBlockResult, NoneTensor, NoBlockResult)
    ELSE FuseBI_cat(self, x2y, y2x, Cat(x2y.out, y2x.out))

\* lines 188-196
FuseBI_x2y(self, x, y, x2y) ==
    IF x2y.err # "none"
    THEN FuseResult(x2y.err, NoneTensor, x2y, NoBlockResult, NoBlockResult, NoneTensor,
                    NoBlockResult)
    ELSE FuseBI_y2x(self, x2y, ResidualBlock_call(self.cross_y2x, <<x, y>>, NoKwargs))

\* line 196 in a single-direction mode
FuseOne_ffn(cross, ffn) ==
    FuseResult(ffn.err, ffn.out, NoBlockResult, NoBlockResult, cross, NoneTensor, ffn)

\* lines 192-196, given the outcome of self.cross
FuseOne(self, cross) ==
    IF cross.err # "none"
    THEN FuseResult(cross.err, NoneTensor, NoBlockResult, NoBlockResult, cross, NoneTensor,
                    NoBlockResult)
    ELSE FuseOne_ffn(cross, ResidualBlock_call(self.ffn, <<cross.out>>, NoKwargs))

\* lines 187-196, x and y placed
Fuse(self, x, y) ==
    IF self.mode = "BI"
    THEN FuseBI_x2y(self, x, y, ResidualBlock_call(self.cross_x2y, <<y, x>>, NoKwargs))
    ELSE IF self.mode = "X2Y"
    THEN FuseOne(self, ResidualBlock_call(self.cross, <<>>, [Q |-> y, KV |-> x]))
    ELSE FuseOne(self, ResidualBlock_call(self.cross, <<>>, [Q |-> x, KV |-> y]))

ModalityAwareFusion_forward(self, x, y) ==
    Fuse(self, To(x, self.devices[1]), To(y, self.devices[2]))

-----------------------------------------------------------------------------
(* The program: one module is constructed, then called *)

\* placements handed to ModalityAwareFusion
DeviceLists == {<<"cpu", "cpu">>, <<"cpu", "cuda:0">>}

Modalities == {2}

\* the shapes of the inputs handed to a module of width d_model: any batch
\* size and length, and a feature width equal to d_model, one less or one more
Shapes(d_model) ==
    {<<b, t, c>> : b \in Batches, t \in SeqLens,
                   c \in {w \in Widths : w \in (d_model - 1)..(d_model + 1)}}

Input(name, shape) == Tensor(shape, Leaf(name), "cpu")

NoCfg == [cls |-> "None"]

NoInp == [x |-> NoneTensor, y |-> NoneTensor]

NoRes == [err |-> "none"]

Init ==
    /\ pc = "start"
    /\ cfg = NoCfg
    /\ obj = NoModule
    /\ inp = NoInp
    /\ res = NoRes

Constructed(c, r) ==
    /\ pc' = IF r.err = "none" THEN "constructed" ELSE "ctor_raised"
    /\ cfg' = c
    /\ obj' = r.obj
    /\ res' = [err |-> r.err]
    /\ inp' = NoInp

ConstructAttention ==
    /\ pc = "start"
    /\ \E d \in Widths, h \in HeadCounts :
          Constructed([cls |-> "MultiHeadCrossModalAttention",
                       d_model |-> d, num_heads |-> h],
                      MultiHeadCrossModalAttention_init(d, h))

ConstructResidual ==
    /\ pc = "start"
    /\ \E d \in Widths, prenorm \in BOOLEAN, mt \in ModuleTypes :
          \/ \E h \in HeadCounts :
                Constructed([cls |-> "ResidualBlock", d_model |-> d,
                             module_type |-> mt, prenorm |-> prenorm,
                             kwargs |-> {"num_heads"}, num_heads |-> h, d_ff |-> 0],
                            ResidualBlock_init(d, mt, prenorm, [num_heads |-> h]))
          \/ \E f \in Widths, n \in Modalities :
                Constructed([cls |-> "ResidualBlock", d_model |-> d,
                             module_type |-> mt, prenorm |-> prenorm,
                             kwargs |-> {"num_modalities", "d_ff"},
                             num_heads |-> 0, d_ff |-> f],
                            ResidualBlock_init(d, mt, prenorm,
                                               [num_modalities |-> n, d_ff |-> f]))

ConstructFusion ==
    /\ pc = "start"
    /\ \E d \in Widths, h \in HeadCounts, mode \in Modes,
          devices \in DeviceLists, n \in Modalities :
          Constructed([cls |-> "ModalityAwareFusion", d_model |-> d,
                       num_modalities |-> n, num_heads |-> h,
                       devices |-> devices, mode |-> mode],
                      ModalityAwareFusion_init(d, n, h, devices, mode))

Called(x, y, r) ==
    /\ pc' = IF r.err = "none" THEN "returned" ELSE "raised"
    /\ inp' = [x |-> x, y |-> y]
    /\ res' = r
    /\ UNCHANGED <<cfg, obj>>

\* cross_attn(x, q)
CallAttention ==
    /\ pc = "constructed"
    /\ obj.cls = "MultiHeadCrossModalAttention"
    /\ \E sx \in Shapes(cfg.d_model), sq \in Shapes(cfg.d_model) :
          LET x == Input("x", sx)
              Q == Input("Q", sq)
          IN Called(x, Q, MultiHeadCrossModalAttention_forward(obj, x, Q))

\* block(x, context) on an attention block, block(x) on a feed-forward block
CallResidual ==
    /\ pc = "constructed"
    /\ obj.cls = "ResidualBlock"
    /\ \/ /\ obj.module.cls = "MultiHeadCrossModalAttention"
          /\ \E sx \in Shapes(cfg.d_model), sc \in Shapes(cfg.d_model) :
                LET x == Input("x", sx)
                    context == Input("context", sc)
                IN Called(x, context, ResidualBlock_call(obj, <<x, context>>, NoKwargs))
       \/ /\ obj.module.cls = "FeedForward"
          /\ \E sx \in Shapes(cfg.d_model) :
                LET x == Input("x", sx)
                IN Called(x, NoneTensor, ResidualBlock_call(obj, <<x>>, NoKwargs))

\* fuse(x, y)
CallFusion ==
    /\ pc = "constructed"
    /\ obj.cls = "ModalityAwareFusion"
    /\ \E sx \in Shapes(cfg.d_model), sy \in Shapes(cfg.d_model) :
          LET x == Input("x", sx)
              y == Input("y", sy)
          IN Called(x, y, ModalityAwareFusion_forward(obj, x, y))

\* the caller takes the outcome; the module is ready for the next call
NextCall ==
    /\ pc \in {"returned", "raised"}
    /\ pc' = "constructed"
    /\ inp' = NoInp
    /\ res' = NoRes
    /\ UNCHANGED <<cfg, obj>>

Next ==
    \/ ConstructAttention
    \/ ConstructResidual
    \/ ConstructFusion
    \/ CallAttention
    \/ CallResidual
    \/ CallFusion
    \/ NextCall

Spec == Init /\ [][Next]_vars

-----------------------------------------------------------------------------
(* Properties *)

AfterCall == pc \in {"returned", "raised"}

AttentionCall == AfterCall /\ obj.cls = "MultiHeadCrossModalAttention"

ResidualCall == AfterCall /\ obj.cls = "ResidualBlock"

AttentionBlockCall == ResidualCall /\ obj.module.cls = "MultiHeadCrossModalAttention"

\* a fuse call on a module whose streams stay where its parameters are
FusionCall ==
    /\ AfterCall
    /\ obj.cls = "ModalityAwareFusion"
    /\ obj.devices = <<"cpu", "cpu">>

\* both inputs have the same batch size and the configured feature width
ValidInputs ==
    /\ inp.x.shape[1] = inp.y.shape[1]
    /\ inp.x.shape[3] = cfg.d_model
    /\ inp.y.shape[3] = cfg.d_model

\* C1: in BIDIRECTIONAL mode, fuse(x, y) on inputs (B, T_x, d_model) and
\* (B, T_y, d_model) completes without error, the concatenation has
\* 2 * d_model features and the output has d_model features.
C1_BidirectionalFuseReturns ==
    (FusionCall /\ obj.mode = "BI" /\ ValidInputs)
        => /\ pc = "returned"
           /\ Last(res.cat.shape) = 2 * cfg.d_model
           /\ Last(res.out.shape) = cfg.d_model

\* C2: in a single-direction mode, fuse(x, y) on inputs of shape
\* (B, T, d_model) runs one Residual(Attention) pass, with y as query and x as
\* context in X2Y and x as query and y as context in Y2X, then the
\* Residual(Feed-Forward) block, and returns an array of shape (B, T, d_model).
C2_SingleDirectionFuseReturns ==
    (FusionCall /\ obj.mode \in {"X2Y", "Y2X"} /\ ValidInputs
                /\ inp.x.shape = inp.y.shape)
        => /\ pc = "returned"
           /\ res.out.shape = inp.x.shape
           /\ res.cross.attn.queries_from =
                 (IF obj.mode = "X2Y" THEN inp.y.expr ELSE inp.x.expr)
           /\ res.cross.attn.keys_from =
                 (IF obj.mode = "X2Y" THEN inp.x.expr ELSE inp.y.expr)
           /\ res.ffn.err = "none"

\* C3: the attention applied to a key-value input (B, T_kv, d_model) and a
\* query input (B, T_q, d_model) returns an array of shape (B, T_q, d_model).
C3_AttentionOutputShape ==
    (AttentionCall /\ ValidInputs)
        => /\ pc = "returned"
           /\ res.out.shape = <<inp.x.shape[1], inp.y.shape[2], cfg.d_model>>

C3_Witness ==
    /\ AttentionCall
    /\ pc = "returned"
    /\ cfg.d_model = 8
    /\ obj.num_heads = 2
    /\ inp.x.shape = <<2, 4, 8>>
    /\ inp.y.shape = <<2, 3, 8>>
    /\ res.out.shape = <<2, 3, 8>>

NotDividing(d_model, num_heads) ==
    IF num_heads = 0 THEN TRUE ELSE d_model % num_heads # 0

\* C4: constructing a MultiHeadCrossModalAttention, or a ModalityAwareFusion
\* in any mode, with a num_heads that does not divide d_model raises and
\* produces no module.
C4_NonDividingHeadsRaise ==
    (/\ cfg.cls \in {"MultiHeadCrossModalAttention", "ModalityAwareFusion"}
     /\ NotDividing(cfg.d_model, cfg.num_heads))
        => /\ pc = "ctor_raised"
           /\ obj.cls = "None"
           /\ res.err \in {"AssertionError", "ZeroDivisionError"}

C4_Witness ==
    /\ pc = "ctor_raised"
    /\ cfg.cls = "ModalityAwareFusion"
    /\ cfg.mode = "Y2X"
    /\ cfg.d_model = 10
    /\ cfg.num_heads = 3
    /\ res.err = "AssertionError"

\* the value of the inner module of the called block on the call's inputs
InnerExpr ==
    IF obj.module.cls = "MultiHeadCrossModalAttention"
    THEN Node("out_proj", <<AttnExpr(inp.x, inp.y)>>)
    ELSE Node("fc2", <<Node("gelu", <<Node("fc1", <<Leaf("x")>>)>>)>>)

\* C5: a ResidualBlock returns LayerNorm(x + inner(x[, context])) when built
\* post-norm and x + LayerNorm(inner(x[, context])) when built pre-norm, for
\* both inner modules; the residual term and the argument of the inner
\* module are the un-normalized x.
C5_ResidualFormula ==
    (ResidualCall /\ pc = "returned")
        => res.out.expr =
              (IF obj.prenorm
               THEN Node("add", <<Leaf("x"), Node("LayerNorm", <<InnerExpr>>)>>)
               ELSE Node("LayerNorm", <<Node("add", <<Leaf("x"), InnerExpr>>)>>))

C5_Witness ==
    /\ AttentionBlockCall
    /\ pc = "returned"
    /\ obj.prenorm
    /\ obj.module.num_heads = 2
    /\ inp.x.shape = <<2, 3, 4>>
    /\ inp.y.shape = <<2, 3, 4>>

\* C6: in every mode, a fuse call whose inputs differ in batch size, or one
\* of whose inputs has a feature width other than d_model, raises a
\* shape-mismatch error and returns nothing.
C6_MismatchRaisesShapeError ==
    (FusionCall /\ ~ValidInputs)
        => /\ pc = "raised"
           /\ res.err = "RuntimeError"
           /\ IsNone(res.out)

\* every entry (b, h, t, j) of the head-split tensor is feature
\* h * head_dim + j of position t of batch b of the projection
ContiguousSlices(t, B, H, T, head_dim) ==
    /\ t.shape = <<B, H, T, head_dim>>
    /\ \A b \in 0..(B - 1), h \in 0..(H - 1), p \in 0..(T - 1), j \in 0..(head_dim - 1) :
          At4(t, b, h, p, j) = <<b, p, h * head_dim + j>>

\* C7: after the head split, each of Q, K and V has shape
\* (B, H, T, d_model / H) and its entry (b, h, t, j) is feature
\* h * (d_model / H) + j of the projected vector at position t of batch b.
C7_HeadSplitContiguousSlices ==
    (AttentionCall /\ ValidInputs)
        => /\ ContiguousSlices(res.Q, inp.x.shape[1], obj.num_heads, inp.y.shape[2],
                               obj.head_dim)
           /\ ContiguousSlices(res.K, inp.x.shape[1], obj.num_heads, inp.x.shape[2],
                               obj.head_dim)
           /\ ContiguousSlices(res.V, inp.x.shape[1], obj.num_heads, inp.x.shape[2],
                               obj.head_dim)

\* the block ran its attention
Ran(block) == block.attn.keys_from # NoExpr

\* C8: in BIDIRECTIONAL mode the attention of the x2y block takes keys and
\* values from x and queries from y, the attention of the y2x block takes
\* keys and values from y and queries from x, and the results are
\* concatenated in the order [x2y, y2x].
C8_BidirectionalAttentionRoles ==
    (FusionCall /\ obj.mode = "BI")
        => /\ Ran(res.x2y) => /\ res.x2y.attn.keys_from = inp.x.expr
                              /\ res.x2y.attn.queries_from = inp.y.expr
           /\ Ran(res.y2x) => /\ res.y2x.attn.keys_from = inp.y.expr
                              /\ res.y2x.attn.queries_from = inp.x.expr
           /\ ~IsNone(res.cat) =>
                 res.cat.expr = Node("cat", <<res.x2y.out.expr, res.y2x.out.expr>>)

\* C9: the Feed-Forward module of the trailing block, and the block's
\* normalization, accept 2 * d_model features in BIDIRECTIONAL mode and
\* d_model features in the single-direction modes.
C9_FeedForwardInputWidth ==
    (pc = "constructed" /\ obj.cls = "ModalityAwareFusion")
        => /\ obj.ffn.module.fc1.in_features =
                 (IF obj.mode = "BI" THEN 2 * cfg.d_model ELSE cfg.d_model)
           /\ obj.ffn.norm =
                 (IF obj.mode = "BI" THEN 2 * cfg.d_model ELSE cfg.d_model)

LengthsAdd == \/ inp.y.shape[2] = inp.x.shape[2]
              \/ inp.y.shape[2] = 1
              \/ inp.x.shape[2] = 1

\* C10: an attention ResidualBlock called with a primary stream
\* (B, T_kv, d_model) and a query stream (B, T_q, d_model) returns only when
\* T_q = T_kv or one of the lengths is 1; otherwise the residual addition
\* raises a shape error and nothing is returned, pre-norm or post-norm.
C10_ResidualLengths ==
    (AttentionBlockCall /\ ValidInputs)
        => /\ pc = "returned" => LengthsAdd
           /\ ~LengthsAdd => /\ pc = "raised"
                             /\ res.err = "RuntimeError"
                             /\ IsNone(res.out)
                             /\ res.attn.err = "none"

C10_Witness ==
    /\ AttentionBlockCall
    /\ ValidInputs
    /\ obj.prenorm
    /\ inp.x.shape[2] = 3
    /\ inp.y.shape[2] = 2
    /\ pc = "raised"
    /\ res.err = "RuntimeError"
    /\ res.attn.out.shape = <<inp.x.shape[1], 2, cfg.d_model>>

-----------------------------------------------------------------------------
(* What the code does where the properties above fail *)

\* a BIDIRECTIONAL fuse call never returns: on valid inputs it raises the
\* size mismatch of a residual addition or of the trailing block, whose fc1
\* takes d_model features and is handed 2 * d_model
BidirectionalFuseRaises ==
    (FusionCall /\ obj.mode = "BI")
        => /\ pc = "raised"
           /\ res.err = "RuntimeError"
           /\ ~IsNone(res.cat) => /\ Last(res.cat.shape) = 2 * cfg.d_model
                                  /\ res.ffn.err = "RuntimeError"

\* the call of the specification's example: d_model = 8, num_heads = 2,
\* batch 2, T_x = 3, T_y = 4 raises in the residual addition of the x2y block
BidirectionalExampleRaises ==
    (FusionCall /\ obj.mode = "BI" /\ cfg.d_model = 8 /\ cfg.num_heads = 2
                /\ inp.x.shape = <<2, 3, 8>> /\ inp.y.shape = <<2, 4, 8>>)
        => /\ pc = "raised"
           /\ res.err = "RuntimeError"
           /\ res.x2y.err = "RuntimeError"
           /\ res.x2y.attn.out.shape = <<2, 3, 8>>

\* a single-direction fuse call raises TypeError before any attention runs:
\* forward(self, x, context=None) has no parameters named Q and KV
SingleDirectionFuseRaisesTypeError ==
    (FusionCall /\ obj.mode \in {"X2Y", "Y2X"})
        => /\ pc = "raised"
           /\ res.err = "TypeError"
           /\ ~Ran(res.cross)

\* in BIDIRECTIONAL mode the x2y block attends from x over y and the y2x
\* block from y over x
BidirectionalRolesInCode ==
    (FusionCall /\ obj.mode = "BI")
        => /\ Ran(res.x2y) => /\ res.x2y.attn.keys_from = inp.y.expr
                              /\ res.x2y.attn.queries_from = inp.x.expr
           /\ Ran(res.y2x) => /\ res.y2x.attn.keys_from = inp.x.expr
                              /\ res.y2x.attn.queries_from = inp.y.expr

\* the trailing block is sized for d_model features in every mode
FeedForwardWidthInCode ==
    (pc = "constructed" /\ obj.cls = "ModalityAwareFusion")
        => /\ obj.ffn.module.fc1.in_features = cfg.d_model
           /\ obj.ffn.norm = cfg.d_model

\* Q is split into contiguous slices; K and V are split twice, and entry
\* (b, h, t, j) of each holds the element at offset (t * H + h) * head_dim + j
\* of the once-split tensor of batch b
HeadSplitInCode ==
    (AttentionCall /\ ValidInputs)
        => LET B == inp.x.shape[1]
               T == inp.x.shape[2]
               H == obj.num_heads
               hd == obj.head_dim
               once(o) == <<(o \div hd) % T, ((o \div (T * hd)) * hd) + (o % hd)>>
           IN /\ ContiguousSlices(res.Q, B, H, inp.y.shape[2], hd)
              /\ res.K.shape = <<B, H, T, hd>>
              /\ res.V = res.K
              /\ \A b \in 0..(B - 1), h \in 0..(H - 1), p \in 0..(T - 1), j \in 0..(hd - 1) :
                    At4(res.K, b, h, p, j) =
                       <<b, once((p * H + h) * hd + j)[1], once((p * H + h) * hd + j)[2]>>

=============================================================================
